---- MODULE Spec2Model ----
(***************************************************************************)
(* Model of the KendoAI MCP server: the ACT schema (src/types.ts), the     *)
(* environment schema (env.ts) and the three tool handlers planner_tool,   *)
(* structure_tool and merger_tool (src/server.ts).                         *)
(*                                                                         *)
(* JSON / JavaScript values are tagged records:                            *)
(*   [t |-> "absent"]            undefined, or a key that is not there     *)
(*   [t |-> "null"]              null                                      *)
(*   [t |-> "bool", b |-> B]     true / false                              *)
(*   [t |-> "num",  n |-> N]     a number                                  *)
(*   [t |-> "str",  s |-> S]     a string                                  *)
(*   [t |-> "arr",  a |-> Seq]   an array                                  *)
(*   [t |-> "obj",  o |-> Rec]   an object; DOMAIN o is its set of keys    *)
(***************************************************************************)
EXTENDS Integers, Sequences, FiniteSets, TLC

VARIABLES
    env,        \* process.env as seen by env.ts
    proc,       \* position of the process: "env", "register", "main", "serving", "crashed", "exited"
    config,     \* the exported `env` object of env.ts (NoConfig before it is parsed)
    tools,      \* names registered with server.registerTool, in order
    inv,        \* per invocation slot: position and locals of one running tool call
    response,   \* the `const response` binding of each running handler
    candidate,  \* the value handed to ACTComponentSchema (schema runs)
    verdict     \* what ACTComponentSchema made of candidate (schema runs)

vars == <<env, proc, config, tools, inv, response, candidate, verdict>>

(***************************************************************************)
(* Bounds                                                                  *)
(***************************************************************************)
\* largest number of nodes of an enumerated ACT candidate
MaxNodes == 3
\* number of tool calls that can be in flight together
MaxInv == 2

(***************************************************************************)
(* JavaScript values                                                       *)
(***************************************************************************)
Absent == [t |-> "absent"]
Null == [t |-> "null"]
Bool(b) == [t |-> "bool", b |-> b]
Num(n) == [t |-> "num", n |-> n]
Str(s) == [t |-> "str", s |-> s]
Arr(a) == [t |-> "arr", a |-> a]
Obj(o) == [t |-> "obj", o |-> o]

\* the empty object {}
EmptyRec == [k \in {} |-> Absent]

\* v is null or undefined: reading a property of it throws a TypeError
Nullish(v) == v.t \in {"absent", "null"}

\* v[k] for a v that is not nullish: undefined unless v is an object with key k
Prop(v, k) ==
    IF v.t = "obj" /\ k \in DOMAIN v.o THEN v.o[k] ELSE Absent

\* JavaScript truthiness, as used by `!x` and `x || y`
Falsy(v) ==
    \/ v.t \in {"absent", "null"}
    \/ v.t = "bool" /\ ~v.b
    \/ v.t = "num" /\ v.n = 0
    \/ v.t = "str" /\ v.s = ""

\* the object o without key k / with key k set to v
Without(o, k) == [j \in DOMAIN o \ {k} |-> o[j]]
WithKey(o, k, v) == [j \in DOMAIN o \cup {k} |-> IF j = k THEN v ELSE o[j]]

(***************************************************************************)
(* zod: result of a parse                                                  *)
(***************************************************************************)
ZodOK(v) == [ok |-> TRUE, value |-> v]
ZodFail == [ok |-> FALSE]

\* z.string().min(1): a string of length >= 1
zStringMin1(v) ==
    IF v.t = "str" /\ v.s # "" THEN ZodOK(v) ELSE ZodFail

\* z.string(): any string, the empty one included
zString(v) ==
    IF v.t = "str" THEN ZodOK(v) ELSE ZodFail

\* (variant: z.string().nullish(), which also takes undefined)
zStringNullish(v) ==
    IF v.t \in {"null", "absent"} THEN ZodOK(v) ELSE zString(v)

\* z.string().nullable(): null or a string; undefined is not accepted
zStringNullable(v) ==
    IF v.t = "null" THEN ZodOK(v) ELSE zString(v)

RECURSIVE ACTComponentSchema(_)

\* z.array(ACTComponentSchema): an array all of whose elements parse
zArrayOfACT(v) ==
    IF v.t # "arr" THEN ZodFail
    ELSE LET rs == [i \in 1..Len(v.a) |-> ACTComponentSchema(v.a[i])]
         IN  IF \A i \in 1..Len(v.a) : rs[i].ok
             THEN ZodOK(Arr([i \in 1..Len(v.a) |-> rs[i].value]))
             ELSE ZodFail

\* (variant: a union that turns an empty array into the empty string)
zChildrenUnionCoerce(v) ==
    LET a == zArrayOfACT(v)
    IN  IF a.ok
        THEN (IF a.value.a = <<>> THEN ZodOK(Str("")) ELSE a)
        ELSE zString(v)

\* z.union([z.array(ACTComponentSchema), z.string()]): first option that parses
zChildrenUnion(v) ==
    LET a == zArrayOfACT(v)
    IN  IF a.ok THEN a ELSE zString(v)

\* z.lazy(() => z.object({component, description, mcpQuery, children})):
\* the input must be an object, every key of the shape must parse, keys
\* outside the shape are stripped from the output
ACTComponentSchema(v) ==
    IF v.t # "obj" THEN ZodFail
    ELSE LET c == zString(Prop(v, "component"))
             d == zString(Prop(v, "description"))
             q == zStringNullable(Prop(v, "mcpQuery"))
             k == zChildrenUnion(Prop(v, "children"))
         IN  IF c.ok /\ d.ok /\ q.ok /\ k.ok
             THEN ZodOK(Obj([component |-> c.value, description |-> d.value,
                             mcpQuery |-> q.value, children |-> k.value]))
             ELSE ZodFail

(***************************************************************************)
(* zod: the issues of a failed parse. An issue has a code and the path of  *)
(* the value it is about; a union that matched no option reports one       *)
(* invalid_union issue that holds the issues of each option                *)
(***************************************************************************)
Key(k) == [k |-> k]
Idx(n) == [i |-> n]

InvalidType(path) == [code |-> "invalid_type", path |-> path]

\* z.string() on the value at path
zStringIssues(v, path) ==
    IF v.t = "str" THEN {} ELSE {InvalidType(path)}

\* z.string().nullable() on the value at path
zStringNullableIssues(v, path) ==
    IF v.t = "null" THEN {} ELSE zStringIssues(v, path)

RECURSIVE ACTIssues(_, _)

\* z.array(ACTComponentSchema): every element is parsed, element n (from 0)
\* under path + [n]
zArrayOfACTIssues(v, path) ==
    IF v.t # "arr" THEN {InvalidType(path)}
    ELSE UNION {ACTIssues(v.a[n], Append(path, Idx(n - 1))) : n \in 1..Len(v.a)}

\* (variant: a union that reports its failure without the options' issues)
zChildrenUnionIssuesFlat(v, path) ==
    IF zArrayOfACTIssues(v, path) = {} \/ zStringIssues(v, path) = {} THEN {}
    ELSE {[code |-> "invalid_union", path |-> path, unionErrors |-> <<{}, {}>>]}

\* z.union([...]): no issue if an option parses, else one invalid_union
\* issue at the union's path with the issues of both options
zChildrenUnionIssues(v, path) ==
    LET a == zArrayOfACTIssues(v, path)
        b == zStringIssues(v, path)
    IN  IF a = {} \/ b = {} THEN {}
        ELSE {[code |-> "invalid_union", path |-> path, unionErrors |-> <<a, b>>]}

\* z.object({...}): a non-object is one issue; else every key of the shape
\* is parsed and all their issues are reported
ACTIssues(v, path) ==
    IF v.t # "obj" THEN {InvalidType(path)}
    ELSE zStringIssues(Prop(v, "component"), Append(path, Key("component")))
         \cup zStringIssues(Prop(v, "description"), Append(path, Key("description")))
         \cup zStringNullableIssues(Prop(v, "mcpQuery"), Append(path, Key("mcpQuery")))
         \cup zChildrenUnionIssues(Prop(v, "children"), Append(path, Key("children")))

\* ACTComponentSchema.safeParse(v): the parsed value, or the error
safeParse(v) ==
    LET r == ACTComponentSchema(v)
    IN  IF r.ok THEN r ELSE [ok |-> FALSE, issues |-> ACTIssues(v, <<>>)]

(***************************************************************************)
(* Enumerated ACT candidates: every tree of at most MaxNodes nodes whose   *)
(* nodes are the base node with at most one field changed                  *)
(***************************************************************************)
BaseScalars ==
    [component |-> Str("Grid"), description |-> Str("d"), mcpQuery |-> Null]

ScalarProfiles ==
    {BaseScalars}
    \cup {WithKey(BaseScalars, "component", Str("")), Without(BaseScalars, "component")}
    \cup {WithKey(BaseScalars, "description", Str("")), Without(BaseScalars, "description")}
    \cup {WithKey(BaseScalars, "mcpQuery", Str("q")), Without(BaseScalars, "mcpQuery")}
    \cup {WithKey(BaseScalars, "extra", Str("x"))}

LeafNodes ==
    {Obj(WithKey(p, "children", Str(""))) : p \in ScalarProfiles}
    \cup {Obj(WithKey(BaseScalars, "children", Str("x"))),
          Obj(WithKey(BaseScalars, "children", Num(0))),
          Obj(BaseScalars)}

RECURSIVE TreesOfSize(_)
RECURSIVE ForestsOfSize(_)

\* the sequences of trees that have m nodes in all
ForestsOfSize(m) ==
    IF m = 0 THEN {<<>>}
    ELSE UNION {{<<t>> \o f : t \in TreesOfSize(k), f \in ForestsOfSize(m - k)} : k \in 1..m}

\* the trees that have exactly n nodes; Null stands for an element that is no object
TreesOfSize(n) ==
    IF n = 1
    THEN LeafNodes \cup {Null}
         \cup {Obj(WithKey(p, "children", Arr(<<>>))) : p \in ScalarProfiles}
    ELSE {Obj(WithKey(p, "children", Arr(f))) : p \in ScalarProfiles, f \in ForestsOfSize(n - 1)}

Pending == [pending |-> TRUE]

(***************************************************************************)
(* Text rendering                                                          *)
(***************************************************************************)
Text(s) == [t |-> "text", s |-> s]

\* JSON.stringify(v, null, 2): undefined for undefined, else the JSON text of v
JSONstringify(v) ==
    IF v.t = "absent" THEN Absent ELSE [t |-> "json", v |-> v]

\* `${v}` inside a template literal: String(v). (Arrays are not among the
\* values the enumerated responses put into a template.)
TemplateStr(v) ==
    CASE v.t = "str" -> Text(v.s)
      [] v.t = "json" -> v
      [] v.t = "absent" -> Text("undefined")
      [] v.t = "null" -> Text("null")
      [] v.t = "bool" -> Text(IF v.b THEN "true" ELSE "false")
      [] v.t = "num" -> Text(ToString(v.n))
      [] v.t = "obj" -> Text("[object Object]")

(***************************************************************************)
(* env.ts                                                                  *)
(***************************************************************************)
NoConfig == [loaded |-> FALSE]

\* (variant: plain z.string() for both keys)
envSchemaLax(e) ==
    IF e.SECRET.t = "str" /\ e.SERVER_URL.t = "str"
    THEN ZodOK([loaded |-> TRUE, SECRET |-> e.SECRET.s, SERVER_URL |-> e.SERVER_URL.s])
    ELSE ZodFail

\* envSchema.parse(process.env): both keys must be strings of length >= 1
envSchema(e) ==
    IF zStringMin1(e.SECRET).ok /\ zStringMin1(e.SERVER_URL).ok
    THEN ZodOK([loaded |-> TRUE, SECRET |-> e.SECRET.s, SERVER_URL |-> e.SERVER_URL.s])
    ELSE ZodFail

(***************************************************************************)
(* server.ts: the tools                                                    *)
(***************************************************************************)
\* the registerTool calls of server.ts, in source order
ToolOrder == <<"planner_tool", "structure_tool", "merger_tool">>
ToolNames == {"planner_tool", "structure_tool", "merger_tool"}

\* the one tool of the single-stage server file
PageTool == "generate_page"

\* (variant: structure_tool posting to the merger endpoint)
EndpointChained(tool) ==
    CASE tool = "planner_tool" -> "/api/agents/planner/generate"
      [] tool = "structure_tool" -> "/api/agents/merger/generate"
      [] tool = "merger_tool" -> "/api/agents/merger/generate"
      [] tool = "generate_page" -> "/api/agents/generate"

\* the path each handler passes to fetch
Endpoint(tool) ==
    CASE tool = "planner_tool" -> "/api/agents/planner/generate"
      [] tool = "structure_tool" -> "/api/agents/structure/generate"
      [] tool = "merger_tool" -> "/api/agents/merger/generate"
      [] tool = "generate_page" -> "/api/agents/generate"

\* (variant: no inputSchema, any arguments reach the handler)
InputSchemaAny(tool, args) ==
    ZodOK(args)

\* inputSchema of each tool, applied to the call's arguments before the
\* handler runs; the handler receives the parsed value
InputSchema(tool, args) ==
    IF args.t # "obj" THEN ZodFail
    ELSE CASE tool = "planner_tool" ->
                LET q == zString(Prop(args, "query"))
                IN  IF q.ok THEN ZodOK(Obj([query |-> q.value])) ELSE ZodFail
           [] tool = "structure_tool" ->
                LET q == zString(Prop(args, "query"))
                    p == zString(Prop(args, "plan"))
                IN  IF q.ok /\ p.ok THEN ZodOK(Obj([query |-> q.value, plan |-> p.value]))
                    ELSE ZodFail
           [] tool = "merger_tool" ->
                LET a == ACTComponentSchema(Prop(args, "actStructure"))
                IN  IF a.ok THEN ZodOK(Obj([actStructure |-> a.value])) ELSE ZodFail
           [] tool = "generate_page" ->
                LET q == zString(Prop(args, "query"))
                IN  IF q.ok THEN ZodOK(Obj([query |-> q.value])) ELSE ZodFail

\* (variant: the structure handler substituting a default for an empty plan)
RequestBodyDefaulted(tool, args, cfg, t) ==
    CASE tool = "planner_tool" ->
            Obj([query |-> Prop(args, "query"), secret |-> Str(cfg.SECRET)])
      [] tool = "structure_tool" ->
            Obj([executionPlan |-> Obj([id |-> Str("plan-" \o ToString(t)),
                                        userQuery |-> Prop(args, "query"),
                                        plan |-> IF Falsy(Prop(args, "plan"))
                                                 THEN Str("No plan provided")
                                                 ELSE Prop(args, "plan")]),
                 query |-> Prop(args, "query"),
                 secret |-> Str(cfg.SECRET)])
      [] tool = "merger_tool" ->
            Obj([actStructure |-> Prop(args, "actStructure"), secret |-> Str(cfg.SECRET)])
      [] tool = "generate_page" ->
            Obj([query |-> Prop(args, "query"), secret |-> Str(cfg.SECRET)])

\* the body each handler serialises for its request (t is Date.now())
RequestBody(tool, args, cfg, t) ==
    CASE tool = "planner_tool" ->
            Obj([query |-> Prop(args, "query"), secret |-> Str(cfg.SECRET)])
      [] tool = "structure_tool" ->
            Obj([executionPlan |-> Obj([id |-> Str("plan-" \o ToString(t)),
                                        userQuery |-> Prop(args, "query"),
                                        plan |-> Prop(args, "plan")]),
                 query |-> Prop(args, "query"),
                 secret |-> Str(cfg.SECRET)])
      [] tool = "merger_tool" ->
            Obj([actStructure |-> Prop(args, "actStructure"), secret |-> Str(cfg.SECRET)])
      [] tool = "generate_page" ->
            Obj([query |-> Prop(args, "query"), secret |-> Str(cfg.SECRET)])

\* the fetch(url, {method, headers, body}) call of a handler
Request(tool, args, cfg, t) ==
    [url |-> cfg.SERVER_URL \o Endpoint(tool),
     method |-> "POST",
     body |-> JSONstringify(RequestBody(tool, args, cfg, t))]

(***************************************************************************)
(* server.ts: what a handler does with the collaborator's answer           *)
(***************************************************************************)
\* what fetch / response.json() can deliver
Fault(m) == [k |-> "fault", m |-> m]
NotJson == [k |-> "text"]
JsonBody(v) == [k |-> "json", v |-> v]
NoResponse == [k |-> "none"]

Returned(r) == [thrown |-> FALSE, report |-> r]
Threw(m) == [thrown |-> TRUE, message |-> m]

NoReport == [kind |-> "none"]
Escaped(m) == [kind |-> "escaped", detail |-> m]

\* the text each tool prints when the collaborator gave no error string
DefaultError(tool) ==
    CASE tool = "planner_tool" -> "Unknown error occurred while generating the execution plan"
      [] tool = "structure_tool" -> "Unknown error occurred while generating the component structure"
      [] tool = "merger_tool" -> "Unknown error occurred while generating the Kendo React code"

\* JSON.stringify({success: false, error}): a key whose value is undefined
\* is left out
FailureJson(error) ==
    JSONstringify(Obj(IF error = Absent THEN [success |-> Bool(FALSE)]
                      ELSE [success |-> Bool(FALSE), error |-> error]))

\* the "API Error" report: ${result.error || '<default>'} and a timestamp;
\* generate_page returns {success: false, error: result.error, timestamp}
ApiErrorReport(tool, result, t) ==
    [kind |-> "api_error", tool |-> tool,
     detail |-> IF tool = PageTool THEN FailureJson(Prop(result, "error"))
                ELSE IF Falsy(Prop(result, "error")) THEN Text(DefaultError(tool))
                ELSE TemplateStr(Prop(result, "error")),
     timestamp |-> t]

\* the report built from the `instructions` template
SuccessReport(tool, artifact) ==
    [kind |-> "success", tool |-> tool, artifact |-> TemplateStr(artifact)]

\* (variant: a catch block that reports the configured secret)
NetworkErrorReportLeaky(tool, m, t) ==
    [kind |-> "network_error", tool |-> tool,
     detail |-> IF tool = PageTool THEN FailureJson(Str(config.SECRET))
                ELSE Text(config.SECRET),
     timestamp |-> t]

\* the "Network Error" report of the catch block: error.message and a
\* timestamp; generate_page returns {success: false, error: message, timestamp}
NetworkErrorReport(tool, m, t) ==
    [kind |-> "network_error", tool |-> tool,
     detail |-> IF tool = PageTool THEN FailureJson(Str(m)) ELSE Text(m),
     timestamp |-> t]

\* (variant: the guard as a disjunction)
IsApiErrorOr(result) ==
    Falsy(Prop(result, "success")) \/ Falsy(Prop(result, "data"))

\* the condition guarding the "API Error" return
IsApiError(result) ==
    Falsy(Prop(result, "success")) /\ Falsy(Prop(result, "data"))

\* the expression a tool interpolates into its success template; reading a
\* property of null or undefined throws
ArtifactOf(tool, result) ==
    LET data == Prop(result, "data")
    IN  IF Nullish(data) THEN Threw("Cannot read properties of undefined")
        ELSE CASE tool = "planner_tool" -> Returned(Prop(data, "plan"))
               [] tool = "structure_tool" -> Returned(JSONstringify(Prop(data, "structure")))
               [] tool = "merger_tool" ->
                    IF Nullish(Prop(data, "code"))
                    THEN Threw("Cannot read properties of undefined")
                    ELSE Returned(JSONstringify(Prop(Prop(data, "code"), "mainComponent")))
               [] tool = "generate_page" ->
                    IF Nullish(Prop(data, "kendoComponents"))
                    THEN Threw("Cannot read properties of undefined")
                    ELSE Returned(JSONstringify(Prop(Prop(data, "kendoComponents"), "code")))

\* the statements of the try block after `await fetch`: response.json(),
\* the API-error test, the instructions template
TryAfterFetch(tool, resp, t) ==
    IF resp.k = "text" THEN Threw("Unexpected token in JSON")
    ELSE LET result == resp.v
         IN  IF Nullish(result) THEN Threw("Cannot read properties of null")
             ELSE IF IsApiError(result) THEN Returned(ApiErrorReport(tool, result, t))
             ELSE LET a == ArtifactOf(tool, result)
                  IN  IF a.thrown THEN a ELSE Returned(SuccessReport(tool, a.report))

\* (variant: a catch that handles only the rejection of fetch)
CatchesTransportOnly(m) == m = "fetch failed"

\* `catch (error)` encloses the whole handler body and catches everything
Catches(m) == TRUE

\* outcome of a try-block result: its return value, or the catch block's
Settle(tool, r, t) ==
    IF ~r.thrown THEN r.report
    ELSE IF Catches(r.message) THEN NetworkErrorReport(tool, r.message, t)
    ELSE Escaped(r.message)

(***************************************************************************)
(* Inputs of the runs                                                      *)
(***************************************************************************)
\* values of Date.now() / new Date()
Times == {1, 2}

\* process.env: each of the two variables unset, empty or set
Secrets == {"s1", "s2"}
Envs ==
    [SECRET : {Absent, Str("")} \cup {Str(x) : x \in Secrets},
     SERVER_URL : {Absent, Str(""), Str("http://kendo")}]

BaseLeaf == Obj(WithKey(BaseScalars, "children", Str("")))
\* the structure of the spec's third scenario
Scenario3 == Obj([component |-> Str("Grid"), description |-> Str(""), children |-> Str("x")])

\* arguments a caller may pass to each tool
ArgsOf(tool) ==
    CASE tool = "planner_tool" ->
            {Obj([query |-> Str("build a login form")]), Obj([query |-> Str("")]),
             Obj([query |-> Num(1)]), Obj(EmptyRec)}
      [] tool = "structure_tool" ->
            {Obj([query |-> q, plan |-> p]) : q \in {Str("build a login form"), Str("")},
                                              p \in {Str("the plan"), Str("")}}
            \cup {Obj([query |-> Str("build a login form")])}
      [] tool = "merger_tool" ->
            {Obj([actStructure |-> c]) : c \in TreesOfSize(1)}
            \cup {Obj([actStructure |-> Obj(WithKey(BaseScalars, "children", Arr(<<c>>)))]) :
                    c \in {BaseLeaf, Scenario3}}
            \cup {Obj(EmptyRec)}
      [] tool = "generate_page" ->
            {Obj([query |-> Str("build a login form")]), Obj([query |-> Str("")]),
             Obj(EmptyRec)}

\* values the collaborator may put under `data` for each tool
DataOf(tool) ==
    CASE tool = "planner_tool" ->
            {Obj(EmptyRec), Obj([plan |-> Str("1. add a form")])}
      [] tool = "structure_tool" ->
            {Obj(EmptyRec), Obj([structure |-> BaseLeaf]), Obj([structure |-> Scenario3]),
             Obj([structure |-> Obj(WithKey(BaseScalars, "children", Num(0)))])}
      [] tool = "merger_tool" ->
            {Obj(EmptyRec), Obj([code |-> Obj(EmptyRec)]),
             Obj([code |-> Obj([mainComponent |-> Str("export const Page")])])}
      [] tool = "generate_page" ->
            {Obj(EmptyRec), Obj([kendoComponents |-> Null]),
             Obj([kendoComponents |-> Obj([code |-> Str("export const Page")])])}

\* the JSON objects a collaborator may answer: each of success, data and
\* error left out or present, in every combination
Envelopes(tool) ==
    LET opt(k, vs) == {EmptyRec} \cup {WithKey(EmptyRec, k, v) : v \in vs}
        join(a, b) == [j \in DOMAIN a \cup DOMAIN b |-> IF j \in DOMAIN a THEN a[j] ELSE b[j]]
    IN  {Obj(join(join(s, d), e)) :
            s \in opt("success", {Bool(TRUE), Bool(FALSE)}),
            d \in opt("data", {Null} \cup DataOf(tool)),
            e \in opt("error", {Str("rate limited")})}

\* everything fetch and response.json() may deliver to a handler
Responses(tool) ==
    IF tool \notin ToolNames \cup {PageTool} THEN {}
    ELSE {Fault("fetch failed"), NotJson, JsonBody(Null), JsonBody(Str("ok"))}
         \cup {JsonBody(v) : v \in Envelopes(tool)}

(***************************************************************************)
(* State                                                                   *)
(***************************************************************************)
Slots == 1..MaxInv

Idle ==
    [pc |-> "idle", tool |-> "none", args |-> Absent, sent |-> <<>>,
     got |-> NoResponse, report |-> NoReport]

\* (variant: one module-level `response` shared by all calls)
ResponseSlotShared(i) == 1

\* `const response` is a local of the running handler: one binding per call
ResponseSlot(i) == i

InitProcess ==
    /\ proc = "env"
    /\ config = NoConfig
    /\ tools = <<>>
    /\ inv = [i \in Slots |-> Idle]
    /\ response = [i \in Slots |-> NoResponse]

Init ==
    /\ env \in Envs
    /\ InitProcess
    /\ candidate = Null
    /\ verdict = Pending

(***************************************************************************)
(* Startup and shutdown                                                    *)
(***************************************************************************)
\* env.ts is evaluated first (import): parse process.env or die
LoadEnv ==
    /\ proc = "env"
    /\ LET r == envSchema(env)
       IN  IF r.ok THEN config' = r.value /\ proc' = "register"
           ELSE config' = config /\ proc' = "crashed"
    /\ UNCHANGED <<env, tools, inv, response, candidate, verdict>>

\* the three server.registerTool calls of the module body, in order
RegisterTool ==
    /\ proc = "register"
    /\ tools' = Append(tools, ToolOrder[Len(tools) + 1])
    /\ proc' = IF Len(tools') = Len(ToolOrder) THEN "main" ELSE "register"
    /\ UNCHANGED <<env, config, inv, response, candidate, verdict>>

\* main(): server.connect(transport); a failure exits the process
Connect ==
    /\ proc = "main"
    /\ proc' \in {"serving", "exited"}
    /\ UNCHANGED <<env, config, tools, inv, response, candidate, verdict>>

\* SIGINT / SIGTERM: process.exit(0); calls in flight are abandoned
Signal ==
    /\ proc \in {"register", "main", "serving"}
    /\ proc' = "exited"
    /\ UNCHANGED <<env, config, tools, inv, response, candidate, verdict>>

(***************************************************************************)
(* A tool call                                                             *)
(***************************************************************************)
Registered(tool) == \E n \in 1..Len(tools) : tools[n] = tool

\* the caller invokes a registered tool: the arguments are parsed with the
\* tool's inputSchema; if they parse, the handler runs up to `await fetch`
CallTool(i, tool, args, t) ==
    /\ proc = "serving"
    /\ Registered(tool)
    /\ inv[i].pc = "idle"
    /\ LET p == InputSchema(tool, args)
       IN  inv' = [inv EXCEPT ![i] =
                IF p.ok
                THEN [Idle EXCEPT !.pc = "fetch", !.tool = tool, !.args = args,
                                  !.sent = <<Request(tool, p.value, config, t)>>]
                ELSE [Idle EXCEPT !.pc = "rejected", !.tool = tool, !.args = args]]
    /\ UNCHANGED <<env, proc, config, tools, response, candidate, verdict>>

\* `await fetch(...)` settles: it rejects (catch block), or yields a response
FetchSettle(i, r, t) ==
    /\ proc = "serving"
    /\ inv[i].pc = "fetch"
    /\ IF r.k = "fault"
       THEN /\ inv' = [inv EXCEPT ![i].pc = "done", ![i].got = r,
                                  ![i].report = Settle(inv[i].tool, Threw(r.m), t)]
            /\ response' = response
       ELSE /\ inv' = [inv EXCEPT ![i].pc = "json", ![i].got = r]
            /\ response' = [response EXCEPT ![ResponseSlot(i)] = r]
    /\ UNCHANGED <<env, proc, config, tools, candidate, verdict>>

\* `await response.json()` settles and the handler runs to its return
JsonSettle(i, t) ==
    /\ proc = "serving"
    /\ inv[i].pc = "json"
    /\ LET r == response[ResponseSlot(i)]
           out == IF r.k = "none" THEN Threw("Cannot read properties of undefined")
                  ELSE TryAfterFetch(inv[i].tool, r, t)
       IN  inv' = [inv EXCEPT ![i].pc = "done",
                              ![i].report = Settle(inv[i].tool, out, t)]
    /\ response' = [response EXCEPT ![ResponseSlot(i)] = NoResponse]
    /\ UNCHANGED <<env, proc, config, tools, candidate, verdict>>

\* the result (or the rejection) has been delivered to the caller
Return(i) ==
    /\ proc = "serving"
    /\ inv[i].pc \in {"done", "rejected"}
    /\ inv' = [inv EXCEPT ![i] = Idle]
    /\ UNCHANGED <<env, proc, config, tools, response, candidate, verdict>>

Lifecycle == LoadEnv \/ RegisterTool \/ Connect \/ Signal

\* one call at a time, every argument and every answer
Next ==
    \/ Lifecycle
    \/ \E tool \in ToolNames : \E args \in ArgsOf(tool) : \E t \in Times :
          CallTool(1, tool, args, t)
    \/ \E r \in Responses(inv[1].tool) : \E t \in Times : FetchSettle(1, r, t)
    \/ \E t \in Times : JsonSettle(1, t)
    \/ Return(1)

Spec == Init /\ [][Next]_vars

(***************************************************************************)
(* Either server file: the three-stage server.ts, or the single-stage     *)
(* file that registers generate_page alone                                 *)
(***************************************************************************)
\* the one server.registerTool call of the single-stage file
RegisterPage ==
    /\ proc = "register"
    /\ tools = <<>>
    /\ tools' = <<PageTool>>
    /\ proc' = "main"
    /\ UNCHANGED <<env, config, inv, response, candidate, verdict>>

NextBoth ==
    \/ Next
    \/ RegisterPage
    \/ \E args \in ArgsOf(PageTool) : \E t \in Times : CallTool(1, PageTool, args, t)

SpecBoth == Init /\ [][NextBoth]_vars

(***************************************************************************)
(* Concurrent calls: MaxInv calls in flight, interleaved at their awaits   *)
(***************************************************************************)
ConcArgsOf(tool) ==
    CASE tool = "planner_tool" -> {Obj([query |-> Str("build a login form")])}
      [] tool = "structure_tool" ->
            {Obj([query |-> Str("build a login form"), plan |-> p]) :
                p \in {Str("the plan"), Str("")}}
      [] tool = "merger_tool" -> {Obj([actStructure |-> BaseLeaf])}

ConcResponses(tool) ==
    IF tool \notin ToolNames THEN {}
    ELSE {Fault("fetch failed"), NotJson,
          JsonBody(Obj([success |-> Bool(FALSE), error |-> Str("rate limited")]))}
         \cup {JsonBody(Obj([success |-> Bool(TRUE), data |-> d])) :
                 d \in DataOf(tool) \ {Obj(EmptyRec)}}

InitConc ==
    /\ env = [SECRET |-> Str("s1"), SERVER_URL |-> Str("http://kendo")]
    /\ InitProcess
    /\ candidate = Null
    /\ verdict = Pending

NextConc ==
    \/ Lifecycle
    \/ \E i \in Slots : \E tool \in ToolNames : \E args \in ConcArgsOf(tool) :
          CallTool(i, tool, args, 1)
    \/ \E i \in Slots : \E r \in ConcResponses(inv[i].tool) : FetchSettle(i, r, 1)
    \/ \E i \in Slots : JsonSettle(i, 1)
    \/ \E i \in Slots : Return(i)

SpecConc == InitConc /\ [][NextConc]_vars

(***************************************************************************)
(* Schema runs: ACTComponentSchema applied to an enumerated candidate      *)
(***************************************************************************)
InitACT ==
    /\ env = [SECRET |-> Str("s1"), SERVER_URL |-> Str("http://kendo")]
    /\ InitProcess
    /\ \E n \in 1..MaxNodes : candidate \in TreesOfSize(n)
    /\ verdict = Pending

\* ACTComponentSchema.safeParse(candidate)
Validate ==
    /\ verdict = Pending
    /\ verdict' = safeParse(candidate)
    /\ UNCHANGED <<env, proc, config, tools, inv, response, candidate>>

\* ACTComponentSchema.safeParse applied to the node the first parse yielded
Revalidate ==
    /\ verdict # Pending
    /\ verdict.ok
    /\ "again" \notin DOMAIN verdict
    /\ verdict' = [ok |-> TRUE, value |-> verdict.value,
                   again |-> safeParse(verdict.value)]
    /\ UNCHANGED <<env, proc, config, tools, inv, response, candidate>>

NextACT == Validate \/ Revalidate

SpecACT == InitACT /\ [][NextACT]_vars

(***************************************************************************)
(* Properties                                                              *)
(***************************************************************************)
Done(i) == inv[i].pc = "done"

\* the call in slot i was answered with a JSON object
GotEnvelope(i) == inv[i].got.k = "json" /\ inv[i].got.v.t = "obj"

FailureKinds == {"api_error", "network_error"}

\* C1: for plan, structure and merge alike, an answer with success == false
\* or without data gives a failure report, never a success report, also when
\* the two signals disagree.
C1_FailureSignalGivesFailureReport ==
    \A i \in Slots :
        (/\ Done(i)
         /\ GotEnvelope(i)
         /\ \/ Prop(inv[i].got.v, "success") = Bool(FALSE)
            \/ Prop(inv[i].got.v, "data") = Absent)
        => inv[i].report.kind \in FailureKinds

\* C2: when the collaborator answers success with a structure that ACT
\* validation rejects, the structure stage does not report success.
C2_StructureSuccessIsValidACT ==
    \A i \in Slots :
        (/\ Done(i)
         /\ inv[i].tool = "structure_tool"
         /\ GotEnvelope(i)
         /\ Prop(inv[i].got.v, "success") = Bool(TRUE)
         /\ Prop(Prop(inv[i].got.v, "data"), "structure") # Absent
         /\ ~ACTComponentSchema(Prop(Prop(inv[i].got.v, "data"), "structure")).ok)
        => inv[i].report.kind # "success"

\* the artifact of a stage inside an answer (undefined when it is not there)
StageArtifact(tool, result) ==
    CASE tool = "planner_tool" -> Prop(Prop(result, "data"), "plan")
      [] tool = "structure_tool" -> Prop(Prop(result, "data"), "structure")
      [] tool = "merger_tool" -> Prop(Prop(Prop(result, "data"), "code"), "mainComponent")

\* C3: every success report contains the artifact the collaborator produced;
\* no success report is returned for an answer that carries no artifact.
C3_SuccessCarriesArtifact ==
    \A i \in Slots :
        (Done(i) /\ inv[i].report.kind = "success")
        => /\ GotEnvelope(i)
           /\ StageArtifact(inv[i].tool, inv[i].got.v) # Absent

\* C4: every handler invocation ends with exactly one report, success or
\* failure, for every collaborator behaviour; no fault escapes the handler.
C4_AlwaysOneReportNoEscape ==
    \A i \in Slots :
        /\ Done(i) => inv[i].report.kind \in {"success"} \cup FailureKinds
        /\ ~Done(i) => inv[i].report = NoReport

\* C4 witness: the answer was the JSON value null, reading result.success
\* threw, and the handler still returned a report.
C4_Witness ==
    \E i \in Slots :
        /\ Done(i)
        /\ inv[i].got = JsonBody(Null)
        /\ inv[i].report.kind = "network_error"

\* a fault of the transport: fetch rejected, the body was no JSON, or the
\* JSON was no envelope object
TransportLevel(r) ==
    \/ r.k \in {"fault", "text"}
    \/ r.k = "json" /\ r.v.t # "obj"

\* C5: an answer without usable payload gives the "API Error" report
\* (RemoteRejected), and only a transport-level fault gives the "Network
\* Error" report (TransportFault).
C5_FailureTaggedWithCause ==
    \A i \in Slots :
        Done(i) =>
            /\ (GotEnvelope(i) /\ Nullish(Prop(inv[i].got.v, "data")))
                    => inv[i].report.kind = "api_error"
            /\ inv[i].report.kind = "network_error" => TransportLevel(inv[i].got)

\* the collaborator endpoint that belongs to each stage
OwnEndpoint(tool) ==
    CASE tool = "planner_tool" -> "/api/agents/planner/generate"
      [] tool = "structure_tool" -> "/api/agents/structure/generate"
      [] tool = "merger_tool" -> "/api/agents/merger/generate"

\* C6: an invocation issues exactly one request, to its own stage's
\* endpoint, before it returns; never a second one, never another stage's.
C6_OneRequestToOwnEndpoint ==
    \A i \in Slots :
        /\ inv[i].pc \in {"fetch", "json", "done"}
              => /\ Len(inv[i].sent) = 1
                 /\ inv[i].sent[1].url = config.SERVER_URL \o OwnEndpoint(inv[i].tool)
        /\ inv[i].pc \in {"idle", "rejected"} => inv[i].sent = <<>>

\* C6 witness: a structure call whose request failed has returned, having
\* sent one request and no retry.
C6_Witness ==
    \E i \in Slots :
        /\ Done(i)
        /\ inv[i].tool = "structure_tool"
        /\ inv[i].got.k = "fault"
        /\ Len(inv[i].sent) = 1

\* what a handler running alone returns for the answer r
ReportAlone(tool, r, t) ==
    Settle(tool, IF r.k = "fault" THEN Threw(r.m) ELSE TryAfterFetch(tool, r, t), t)

\* C7: under every interleaving of concurrent invocations, the request an
\* invocation sends and the report it returns are determined by its own
\* input, its own answer and the configuration (and the clock it reads), and
\* the configuration is the one parsed at startup.
C7_NoSharedMutableState ==
    /\ config \in {NoConfig, envSchema(env).value}
    /\ \A i \in Slots :
          /\ inv[i].pc \in {"fetch", "json", "done"}
                => \E t \in Times :
                      inv[i].sent = <<Request(inv[i].tool,
                                              InputSchema(inv[i].tool, inv[i].args).value,
                                              envSchema(env).value, t)>>
          /\ Done(i) => \E t \in Times :
                            inv[i].report = ReportAlone(inv[i].tool, inv[i].got, t)

\* C7 witness: two calls of the same tool overlapped and returned different
\* reports, each the one for its own answer.
C7_Witness ==
    /\ Done(1) /\ Done(2)
    /\ inv[1].tool = inv[2].tool
    /\ inv[1].got.k = "json" /\ inv[2].got.k = "json"
    /\ inv[1].report.kind # inv[2].report.kind

\* C8: a request to the merge endpoint is sent only for an actStructure that
\* passes ACT validation; for one that fails no request is made.
C8_MergeOnlyWithValidACT ==
    \A i \in Slots :
        inv[i].tool = "merger_tool" =>
            /\ inv[i].sent # <<>> => ACTComponentSchema(Prop(inv[i].args, "actStructure")).ok
            /\ ~ACTComponentSchema(Prop(inv[i].args, "actStructure")).ok
                  => inv[i].pc = "rejected" /\ inv[i].sent = <<>>

\* C8 witness: merger_tool was called with an object that is no valid ACT
\* node and the call was rejected without a request.
C8_Witness ==
    \E i \in Slots :
        /\ inv[i].tool = "merger_tool"
        /\ inv[i].pc = "rejected"
        /\ Prop(inv[i].args, "actStructure").t = "obj"
        /\ inv[i].sent = <<>>

NonEmptyStr(v) == v.t = "str" /\ v.s # ""

RECURSIVE WellFormed(_)
\* well-formedness as the specification words it: component and description
\* non-empty, docQuery a string or explicitly absent (null), children a
\* string or a sequence of well-formed nodes
WellFormed(v) ==
    /\ v.t = "obj"
    /\ NonEmptyStr(Prop(v, "component"))
    /\ NonEmptyStr(Prop(v, "description"))
    /\ Prop(v, "mcpQuery").t \in {"str", "null"}
    /\ LET k == Prop(v, "children")
       IN  \/ k.t = "str"
           \/ k.t = "arr" /\ \A n \in 1..Len(k.a) : WellFormed(k.a[n])

\* C9: ACT validation accepts a candidate if and only if component and
\* description are non-empty strings and children is a string or a sequence
\* of accepted nodes, at every depth.
C9_AcceptsIffWellFormed ==
    verdict # Pending => (verdict.ok <=> WellFormed(candidate))

\* a node that is otherwise fine and has children "" or []
EmptyChildrenNode(v) ==
    /\ v.t = "obj"
    /\ NonEmptyStr(Prop(v, "component"))
    /\ NonEmptyStr(Prop(v, "description"))
    /\ Prop(v, "children") \in {Str(""), Arr(<<>>)}

\* C10 as stated: a node with children [] or "" is accepted when its
\* mcpQuery is absent, be it null or a key that is left out.
C10_AcceptsAbsentDocQuery ==
    (/\ verdict # Pending
     /\ EmptyChildrenNode(candidate)
     /\ Prop(candidate, "mcpQuery") \in {Null, Absent})
    => verdict.ok

\* C10 amended: a node with children [] or "" is accepted when its mcpQuery
\* is null; a node that leaves the mcpQuery key out is rejected.
C10_AcceptsNullDocQuery ==
    /\ (/\ verdict # Pending
        /\ EmptyChildrenNode(candidate)
        /\ Prop(candidate, "mcpQuery") = Null)
       => verdict.ok
    /\ (/\ verdict # Pending
        /\ candidate.t = "obj"
        /\ "mcpQuery" \notin DOMAIN candidate.o)
       => ~verdict.ok

\* C10 witness: a node with a zero-length children sequence and a null
\* mcpQuery has been validated and accepted.
C10_Witness ==
    /\ verdict # Pending
    /\ verdict.ok
    /\ EmptyChildrenNode(candidate)
    /\ Prop(candidate, "children") = Arr(<<>>)
    /\ Prop(candidate, "mcpQuery") = Null

\* the candidate lacks component or description, has children that are
\* neither a string nor a sequence, or has such a node (or a non-object)
\* somewhere inside a children sequence
RECURSIVE Malformed(_)
Malformed(v) ==
    \/ v.t # "obj"
    \/ /\ v.t = "obj"
       /\ \/ "component" \notin DOMAIN v.o
          \/ "description" \notin DOMAIN v.o
          \/ Prop(v, "children").t \notin {"str", "arr"}
          \/ /\ Prop(v, "children").t = "arr"
             /\ \E n \in 1..Len(v.o.children.a) : Malformed(v.o.children.a[n])

\* the paths of the values that make the candidate at path invalid
RECURSIVE FailingPaths(_, _)
FailingPaths(v, path) ==
    IF v.t # "obj" THEN {path}
    ELSE {Append(path, Key(k)) : k \in {j \in {"component", "description"} : Prop(v, j).t # "str"}}
         \cup (IF Prop(v, "mcpQuery").t \in {"str", "null"} THEN {}
               ELSE {Append(path, Key("mcpQuery"))})
         \cup (LET c == Prop(v, "children")
                   cp == Append(path, Key("children"))
               IN  CASE c.t = "str" -> {}
                     [] c.t = "arr" ->
                          UNION {FailingPaths(c.a[n], Append(cp, Idx(n - 1))) : n \in 1..Len(c.a)}
                     [] OTHER -> {cp})

\* all the paths an error names, those inside invalid_union issues included
RECURSIVE IssuePaths(_)
IssuePaths(issues) ==
    UNION {{e.path} \cup (IF e.code = "invalid_union"
                          THEN IssuePaths(e.unionErrors[1]) \cup IssuePaths(e.unionErrors[2])
                          ELSE {})
           : e \in issues}

IsPrefix(p, q) == Len(p) <= Len(q) /\ \A n \in 1..Len(p) : p[n] = q[n]

\* C11: a candidate that lacks component or description, whose children is
\* neither string nor sequence, or that has an invalid node anywhere inside
\* a children sequence is rejected, and the error names the path of every
\* failing value and no path that does not lead to one.
C11_RejectsAndNamesFailingPath ==
    verdict # Pending =>
        /\ Malformed(candidate) => ~verdict.ok
        /\ ~verdict.ok =>
              /\ FailingPaths(candidate, <<>>) # {}
              /\ FailingPaths(candidate, <<>>) \subseteq IssuePaths(verdict.issues)
              /\ \A p \in IssuePaths(verdict.issues) :
                    \E f \in FailingPaths(candidate, <<>>) : IsPrefix(p, f)

\* C11 witness: a rejected candidate whose invalid node sits at depth 2
\* (children[0].children[0]); the error names the failing path below it.
C11_Witness ==
    /\ verdict # Pending
    /\ ~verdict.ok
    /\ \E f \in FailingPaths(candidate, <<>>) :
          /\ Len(f) >= 4
          /\ <<f[1], f[2], f[3], f[4]>> = <<Key("children"), Idx(0), Key("children"), Idx(0)>>
          /\ f \in IssuePaths(verdict.issues)

SchemaKeys == {"component", "description", "mcpQuery", "children"}

\* the candidate without the keys that are not ACT fields, at every level
RECURSIVE OnlySchemaKeys(_)
OnlySchemaKeys(v) ==
    IF v.t # "obj" THEN v
    ELSE Obj([k \in DOMAIN v.o \cap SchemaKeys |->
                IF k = "children" /\ v.o[k].t = "arr"
                THEN Arr([n \in 1..Len(v.o[k].a) |-> OnlySchemaKeys(v.o[k].a[n])])
                ELSE v.o[k]])

Revalidated == verdict # Pending /\ "again" \in DOMAIN verdict

\* C12 (as stated): for every candidate the validation accepts, the node it
\* yields is equal to the candidate, and validating that node again yields
\* the same node.
C12_YieldsCandidateUnchanged ==
    (verdict # Pending /\ verdict.ok) =>
        /\ verdict.value = candidate
        /\ Revalidated => (verdict.again.ok /\ verdict.again.value = verdict.value)

\* C12 (amended): for every candidate the validation accepts, the node it
\* yields is the candidate without its keys outside the four ACT fields
\* (so it is the candidate itself when there are none): no field is
\* trimmed or coerced, children "" stays a string, children [] stays an
\* empty sequence; validating that node again accepts it and yields it
\* unchanged.
C12_YieldsSchemaKeysUnchanged ==
    (verdict # Pending /\ verdict.ok) =>
        /\ verdict.value = OnlySchemaKeys(candidate)
        /\ OnlySchemaKeys(candidate) = candidate => verdict.value = candidate
        /\ \A k \in SchemaKeys : Prop(verdict.value, k).t = Prop(candidate, k).t
        /\ Revalidated => (verdict.again.ok /\ verdict.again.value = verdict.value)

\* C12 witness: an accepted node with an empty children sequence that has
\* been validated a second time.
C12_Witness ==
    /\ Revalidated
    /\ Prop(candidate, "children") = Arr(<<>>)
    /\ Prop(verdict.again.value, "children") = Arr(<<>>)

HasSent(i) == inv[i].sent # <<>>
SentBody(i) == inv[i].sent[1].body.v

\* C13: in every structure request, the ExecutionPlan handed to the
\* collaborator is a complete plan object with four fields: id, the
\* original query, the plan text and createdAt.
C13_ExecutionPlanComplete ==
    \A i \in Slots :
        (inv[i].tool = "structure_tool" /\ HasSent(i)) =>
            LET ep == Prop(SentBody(i), "executionPlan")
            IN  /\ ep.t = "obj"
                /\ {"id", "createdAt"} \subseteq DOMAIN ep.o
                /\ Cardinality(DOMAIN ep.o) = 4

\* the service address or the authorization secret is absent or empty
IncompleteConfiguration ==
    \E k \in {"SECRET", "SERVER_URL"} : env[k] = Absent \/ env[k] = Str("")

\* C14: in every run whose service address or authorization secret is
\* absent or empty at startup, the process never gets past the load of the
\* configuration: it is about to fail or has failed, no tool is registered,
\* no invocation is served and no request is sent.
C14_IncompleteConfigurationStopsStartup ==
    IncompleteConfiguration =>
        /\ proc \in {"env", "crashed"}
        /\ ~config.loaded
        /\ tools = <<>>
        /\ \A i \in Slots : inv[i] = Idle

\* C14 witness: the process has failed at startup with an empty secret and
\* a service address that is set.
C14_Witness ==
    /\ proc = "crashed"
    /\ env.SECRET = Str("")
    /\ env.SERVER_URL = Str("http://kendo")
    /\ tools = <<>>

IsStructureCall(i) ==
    /\ inv[i].tool = "structure_tool"
    /\ Prop(inv[i].args, "query").t = "str"
    /\ Prop(inv[i].args, "plan").t = "str"

\* C15: the structure stage forwards its input without judging it: a call
\* with any query string and any plan string (the empty one included) is
\* not refused, its request carries exactly that query and that plan text,
\* and two structure calls that got the same answer return the same report
\* whatever their query and plan were.
C15_StructureForwardsUnjudged ==
    \A i \in Slots :
        IsStructureCall(i) =>
            /\ inv[i].pc \in {"fetch", "json", "done"}
            /\ HasSent(i)
            /\ Prop(SentBody(i), "query") = Prop(inv[i].args, "query")
            /\ Prop(Prop(SentBody(i), "executionPlan"), "userQuery") = Prop(inv[i].args, "query")
            /\ Prop(Prop(SentBody(i), "executionPlan"), "plan") = Prop(inv[i].args, "plan")
            /\ \A j \in Slots :
                  (IsStructureCall(j) /\ Done(i) /\ Done(j) /\ inv[i].got = inv[j].got)
                      => inv[i].report = inv[j].report

\* C15 witness: a structure call with the empty plan text and one with a
\* plan text both got the same successful answer and both returned.
C15_Witness ==
    \E i, j \in Slots :
        /\ IsStructureCall(i) /\ IsStructureCall(j)
        /\ Prop(inv[i].args, "plan") = Str("")
        /\ Prop(inv[j].args, "plan") = Str("the plan")
        /\ Done(i) /\ Done(j)
        /\ inv[i].got = inv[j].got
        /\ inv[i].report.kind = "success"
        /\ Prop(Prop(SentBody(i), "executionPlan"), "plan") = Str("")

\* the paths the handlers post to
KnownPaths ==
    {"/api/agents/planner/generate", "/api/agents/structure/generate",
     "/api/agents/merger/generate", "/api/agents/generate"}

\* v, a value or a rendered text, holds one of the secrets
RECURSIVE MentionsSecret(_)
MentionsSecret(v) ==
    CASE v.t \in {"str", "text"} -> v.s \in Secrets
      [] v.t = "json" -> MentionsSecret(v.v)
      [] v.t = "arr" -> \E n \in 1..Len(v.a) : MentionsSecret(v.a[n])
      [] v.t = "obj" -> \E k \in DOMAIN v.o : MentionsSecret(v.o[k])
      [] OTHER -> FALSE

ReportMentionsSecret(r) ==
    \/ "detail" \in DOMAIN r /\ MentionsSecret(r.detail)
    \/ "artifact" \in DOMAIN r /\ MentionsSecret(r.artifact)

\* C16: every request a tool handler of either server file issues carries
\* the configured secret in its body (and not in its address), and the
\* report returned is a function of the tool, the answer or fault received
\* and the clock alone: it is the same whatever the secret is and it does
\* not hold the secret.
C16_SecretOnlyToCollaborator ==
    \A i \in Slots :
        /\ HasSent(i) =>
              /\ config.loaded /\ env.SECRET = Str(config.SECRET)
              /\ Prop(SentBody(i), "secret") = env.SECRET
              /\ \E p \in KnownPaths : inv[i].sent[1].url = env.SERVER_URL.s \o p
        /\ Done(i) =>
              /\ ~ReportMentionsSecret(inv[i].report)
              /\ \E t \in Times : inv[i].report = ReportAlone(inv[i].tool, inv[i].got, t)

\* C16 witness: with the second secret configured, generate_page sent its
\* request with that secret, the transport failed, and the report was
\* returned.
C16_Witness ==
    /\ env.SECRET = Str("s2")
    /\ inv[1].tool = PageTool
    /\ Done(1)
    /\ Prop(SentBody(1), "secret") = Str("s2")
    /\ inv[1].got.k = "fault"
    /\ inv[1].report.kind = "network_error"

====
